---- MODULE Spec2Model ----
(***************************************************************************)
(* Model of the CSS exporter's token naming / classification               *)
(* (content/token.ts) and of its style-file assembler                      *)
(* (files/style-file.ts).                                                  *)
(*                                                                         *)
(* Every function of the source is a pure mapping from its arguments and   *)
(* the process-wide exportConfiguration to a value or a thrown error.      *)
(* Each is an operator here; a function that can throw returns             *)
(* [threw |-> TRUE] or [threw |-> FALSE, val |-> v].  The state machine    *)
(* records the configuration, the last call made (op, args) and what it    *)
(* returned (result).                                                      *)
(*                                                                         *)
(* Strings that the code only compares or passes on are TLA+ strings;      *)
(* strings the code takes apart (token names, descriptions) are sequences  *)
(* of one-character strings.                                               *)
(***************************************************************************)
EXTENDS Integers, Sequences, FiniteSets, TLC

VARIABLES cfg, op, args, result

vars == <<cfg, op, args, result>>

(***************************************************************************)
(* Bounds                                                                  *)
(***************************************************************************)
\* longest token list handed to an operation
MaxTokens == 3

(***************************************************************************)
(* Generic helpers                                                         *)
(***************************************************************************)
Threw == [threw |-> TRUE]

Ok(v) == [threw |-> FALSE, val |-> v]

Null == "null"

\* Array.prototype.find index: the first position satisfying P, 0 when none
FirstIndex(s, P(_)) ==
  LET I == {i \in 1..Len(s) : P(s[i])}
  IN IF I = {} THEN 0 ELSE CHOOSE i \in I : \A j \in I : i <= j

\* Map.get over new Map(tokens.map(t => [t.id, t])): the last entry of an id wins
LastIndex(s, P(_)) ==
  LET I == {i \in 1..Len(s) : P(s[i])}
  IN IF I = {} THEN 0 ELSE CHOOSE i \in I : \A j \in I : j <= i

RECURSIVE Concat(_)
Concat(ss) == IF ss = <<>> THEN <<>> ELSE Head(ss) \o Concat(Tail(ss))

\* [...new Set(s)] / Array.from(new Set(s)): first occurrences, in order
RECURSIVE Distinct(_)
Distinct(s) ==
  IF s = <<>> THEN <<>>
  ELSE LET r == Distinct(SubSeq(s, 1, Len(s) - 1))
           x == s[Len(s)]
       IN IF \E i \in 1..Len(r) : r[i] = x THEN r ELSE Append(r, x)

Range(s) == {s[i] : i \in 1..Len(s)}

\* String.prototype.split("-") on a sequence of characters
RECURSIVE Split(_)
Split(s) ==
  LET i == FirstIndex(s, LAMBDA c : c = "-")
  IN IF i = 0 THEN <<s>>
     ELSE <<SubSeq(s, 1, i - 1)>> \o Split(SubSeq(s, i + 1, Len(s)))

\* String.prototype.trim on a sequence of characters
RECURSIVE TrimLeft(_)
TrimLeft(s) == IF s # <<>> /\ Head(s) = " " THEN TrimLeft(Tail(s)) ELSE s

RECURSIVE TrimRight(_)
TrimRight(s) ==
  IF s # <<>> /\ s[Len(s)] = " " THEN TrimRight(SubSeq(s, 1, Len(s) - 1)) ELSE s

Trim(s) == TrimRight(TrimLeft(s))

\* the sub-sequences of s (order kept) with at most n elements
RECURSIVE SubSeqsUpTo(_, _)
SubSeqsUpTo(s, n) ==
  IF s = <<>> \/ n = 0 THEN {<<>>}
  ELSE SubSeqsUpTo(Tail(s), n)
         \cup {<<Head(s)>> \o r : r \in SubSeqsUpTo(Tail(s), n - 1)}

(***************************************************************************)
(* Input universe: groups, tokens, collections, themes                     *)
(***************************************************************************)
Group(id, name, path, isRoot) ==
  [id |-> id, name |-> name, path |-> path, isRoot |-> isRoot]

\* brand / core-color/blue / core-color/custom
GroupsPlain ==
  << Group("g1", "brand", <<>>, FALSE),
     Group("g2", "blue", <<"core-color">>, FALSE),
     Group("g3", "custom", <<"core-color">>, FALSE) >>

\* the palette group g2 is absent: its tokens have no parent
GroupsNoPalette ==
  << Group("g1", "brand", <<>>, FALSE),
     Group("g3", "custom", <<"core-color">>, FALSE) >>

\* a root group named core-color (contributes no segment), a one-segment
\* core-color path, and a custom path with a further segment
GroupsDeep ==
  << Group("g1", "core-color", <<>>, TRUE),
     Group("g2", "core-color", <<>>, FALSE),
     Group("g3", "deep", <<"core-color", "custom">>, FALSE) >>

GroupLists == {GroupsPlain, GroupsNoPalette, GroupsDeep}

Token(id, type, name, group, coll, ref, descr) ==
  [id |-> id, tokenType |-> type, name |-> name, parentGroupId |-> group,
   collectionId |-> coll, description |-> descr,
   value |-> [referencedTokenId |-> ref, literal |-> id]]

nBlue9 == <<"b", "l", "u", "e", "-", "9">>
nBlueA3 == <<"b", "l", "u", "e", "-", "a", "3">>
nWhiteA5 == <<"w", "h", "i", "t", "e", "-", "a", "5">>
nBlack1 == <<"b", "l", "a", "c", "k", "-", "1">>
nLink == <<"l", "i", "n", "k">>
nAccent == <<"a", "c", "c", "e", "n", "t">>
nGap == <<"g", "a", "p">>
nShadow == <<"s", "h", "a", "d", "o", "w">>
nInk == <<"i", "n", "k">>

dNote == <<" ", "n", " ">>

TokenPool ==
  << Token("t1", "color", nLink, "g1", "c1", "t7", dNote),
     Token("t2", "color", nBlue9, "g2", Null, Null, <<>>),
     Token("t3", "color", nAccent, "g3", Null, "t2", <<>>),
     Token("t4", "dimension", nGap, "g1", "c9", "t5", <<>>),
     Token("t5", "dimension", nBlueA3, "g2", Null, Null, <<>>),
     Token("t6", "color", nInk, "g1", "c1", "t1", <<>>),
     Token("t7", "color", nWhiteA5, "g2", Null, Null, <<>>),
     Token("t8", "color", nShadow, "g1", Null, "t9", <<>>),
     Token("t9", "color", nBlack1, "g2", Null, Null, <<>>) >>

\* token lists handed to the style-file assembler
StylePool == SubSeq(TokenPool, 1, 6)

StyleTokenLists == SubSeqsUpTo(StylePool, MaxTokens)

TokenLists == SubSeqsUpTo(TokenPool, MaxTokens)

CollectionLists == {<<>>, <<[persistentId |-> "c1", name |-> "Brand"]>>}

\* theme argument: absent (<<>>) or one theme with its overridden token ids
ThemeArgs == {<<>>, <<[overriddenTokens |-> {"t1", "t3", "t5"}]>>}

ThemePaths == {"", "dark"}

(***************************************************************************)
(* exportConfiguration                                                     *)
(***************************************************************************)
DefaultConfig ==
  [exportBaseValues |-> TRUE,
   fileStructure |-> "separateByType",
   tokenType |-> "all",
   exportOnlyThemedTokens |-> FALSE,
   generateEmptyFiles |-> FALSE,
   useReferences |-> TRUE,
   tokenNameStructure |-> "pathAndName",
   tokenNameStyle |-> "kebabCase",
   customizeTokenPrefixes |-> FALSE,
   tokenPrefixes |-> [color |-> "c", dimension |-> "d"],
   globalNamePrefix |-> "",
   showDescriptions |-> FALSE,
   showGeneratedFileDisclaimer |-> FALSE,
   disclaimer |-> "generated",
   cssSelector |-> ":root",
   themeSelector |-> ".theme-{theme}",
   indent |-> 2,
   baseStyleFilePath |-> "./base",
   customizeStyleFileNames |-> FALSE,
   styleFileNames |-> [color |-> "colors", dimension |-> "sizes.CSS"]]

\* default prefix per token type (constants/defaults)
DEFAULT_TOKEN_PREFIXES == [color |-> "color", dimension |-> "dimension"]

(***************************************************************************)
(* content/token: classification                                           *)
(***************************************************************************)
getTokenPrefix(tokenType, c) ==
  IF c.customizeTokenPrefixes THEN c.tokenPrefixes[tokenType]
  ELSE DEFAULT_TOKEN_PREFIXES[tokenType]

getFullPath(parent) ==
  IF ~parent.isRoot THEN Append(parent.path, parent.name) ELSE parent.path

isCoreColor(parentPath) == Len(parentPath) >= 1 /\ parentPath[1] = "core-color"

isRadixColor(parentPath) ==
  isCoreColor(parentPath) /\ ~(Len(parentPath) >= 2 /\ parentPath[2] = "custom")

isCustomColor(parentPath) ==
  isCoreColor(parentPath) /\ Len(parentPath) >= 2 /\ parentPath[2] = "custom"

\* tokenGroups.find((group) => group.id === token.parentGroupId)
findParent(token, tokenGroups) ==
  FirstIndex(tokenGroups, LAMBDA g : g.id = token.parentGroupId)

\* faulty variant: the filter predicate looks at the stored path only
isRadixColorToken_storedPath(token, tokenGroups) ==
  LET i == findParent(token, tokenGroups)
  IN IF i = 0 THEN Threw ELSE Ok(isRadixColor(tokenGroups[i].path))

\* reading parent.path of an undefined parent throws
isRadixColorToken(token, tokenGroups) ==
  LET i == findParent(token, tokenGroups)
  IN IF i = 0 THEN Threw ELSE Ok(isRadixColor(getFullPath(tokenGroups[i])))

\* faulty variant: the filter predicate looks at the stored path only
isCustomColorToken_storedPath(token, tokenGroups) ==
  LET i == findParent(token, tokenGroups)
  IN IF i = 0 THEN Threw
     ELSE Ok(isCoreColor(tokenGroups[i].path)
             /\ Len(tokenGroups[i].path) >= 2 /\ tokenGroups[i].path[2] = "custom")

isCustomColorToken(token, tokenGroups) ==
  LET i == findParent(token, tokenGroups)
  IN IF i = 0 THEN Threw
     ELSE LET parentPath == getFullPath(tokenGroups[i])
          IN Ok(isCoreColor(parentPath)
                /\ Len(parentPath) >= 2 /\ parentPath[2] = "custom")

(***************************************************************************)
(* content/token: naming                                                   *)
(***************************************************************************)
\* NamingHelper.codeSafeVariableNameForToken(token, style, parent, prefix,
\* collectionName, globalPrefix): the name is built from these fragments in
\* this order; an absent (null / undefined / empty) fragment is "" or <<>>.
codeSafeVariableNameForToken(token, style, parentPath, prefix, collectionName, globalPrefix) ==
  [style |-> style, globalPrefix |-> globalPrefix, collection |-> collectionName,
   prefix |-> prefix, path |-> parentPath, name |-> token.name]

radixColorVariableName(token, c) ==
  codeSafeVariableNameForToken(token, c.tokenNameStyle, <<>>, "", "", c.globalNamePrefix)

customColorVariableName(token, c) ==
  codeSafeVariableNameForToken(token, c.tokenNameStyle, <<>>, "", "", c.globalNamePrefix)

\* the branch tokenVariableName takes for a parent path
tokenVariableNameBranch(parentPath) ==
  IF isRadixColor(parentPath) THEN "paletteColor"
  ELSE IF isCustomColor(parentPath) THEN "customColor"
  ELSE "ordinary"

\* collections.find(c => c.persistentId === token.collectionId) ?? {name: token.collectionId}
collectionNameFor(token, collections, c) ==
  IF c.tokenNameStructure = "collectionPathAndName" /\ token.collectionId # Null
  THEN LET i == FirstIndex(collections, LAMBDA k : k.persistentId = token.collectionId)
       IN IF i = 0 THEN token.collectionId ELSE collections[i].name
  ELSE ""

tokenVariableName(token, tokenGroups, collections, c) ==
  LET prefix == getTokenPrefix(token.tokenType, c)
      i == findParent(token, tokenGroups)
  IN IF i = 0 THEN Threw
     ELSE LET parent == tokenGroups[i]
              parentPath == getFullPath(parent)
              branch == tokenVariableNameBranch(parentPath)
          IN IF branch = "paletteColor" THEN Ok(radixColorVariableName(token, c))
             ELSE IF branch = "customColor" THEN Ok(customColorVariableName(token, c))
             ELSE Ok(codeSafeVariableNameForToken(
                       token, c.tokenNameStyle,
                       IF c.tokenNameStructure # "nameOnly" THEN getFullPath(parent) ELSE <<>>,
                       prefix,
                       collectionNameFor(token, collections, c),
                       c.globalNamePrefix))

(***************************************************************************)
(* content/token: value conversion                                         *)
(***************************************************************************)
mappedTokensGet(tokens, id) == LastIndex(tokens, LAMBDA t : t.id = id)

\* faulty variant: the reference callback resolves names without the collections
tokenToVariableRef_noCollections(t, tokenGroups, collections, c) ==
  LET n == tokenVariableName(t, tokenGroups, <<>>, c)
  IN IF n.threw THEN Threw ELSE Ok([kind |-> "var", name |-> n.val, literal |-> ""])

\* (t) => `var(--${tokenVariableName(t, tokenGroups, collections)})`
tokenToVariableRef(t, tokenGroups, collections, c) ==
  LET n == tokenVariableName(t, tokenGroups, collections, c)
  IN IF n.threw THEN Threw ELSE Ok([kind |-> "var", name |-> n.val, literal |-> ""])

NoName == codeSafeVariableNameForToken([name |-> <<>>], "", <<>>, "", "", "")

\* CSSHelper.tokenToCSS: a referencing token becomes the callback's text when
\* references are allowed (an unknown referenced id is an error), any other
\* token its formatted literal value
tokenToCSS(token, tokens, tokenGroups, collections, c) ==
  IF token.value.referencedTokenId # Null /\ c.useReferences
  THEN LET i == mappedTokensGet(tokens, token.value.referencedTokenId)
       IN IF i = 0 THEN Threw
          ELSE tokenToVariableRef(tokens[i], tokenGroups, collections, c)
  ELSE Ok([kind |-> "literal", name |-> NoName, literal |-> token.value.literal])

convertedToken(token, tokens, tokenGroups, collections, c) ==
  LET name == tokenVariableName(token, tokenGroups, collections, c)
  IN IF name.threw THEN Threw
     ELSE LET value == tokenToCSS(token, tokens, tokenGroups, collections, c)
          IN IF value.threw THEN Threw
             ELSE Ok([token |-> token.id,
                      indent |-> c.indent,
                      name |-> name.val,
                      value |-> value.val,
                      comment |-> IF c.showDescriptions /\ token.description # <<>>
                                  THEN <<Trim(token.description)>> ELSE <<>>])

(***************************************************************************)
(* files/style-file: shared pieces                                         *)
(***************************************************************************)
\* filter / map with a callback that may throw: the first throw aborts
FilterT(s, P(_)) ==
  IF \E i \in 1..Len(s) : P(s[i]).threw THEN Threw
  ELSE Ok(SelectSeq(s, LAMBDA t : P(t).val))

MapT(s, F(_)) ==
  IF \E i \in 1..Len(s) : F(s[i]).threw THEN Threw
  ELSE Ok([i \in 1..Len(s) |-> F(s[i]).val])

\* ThemeHelper.filterThemedTokens: the tokens the theme overrides
filterThemedTokens(tokens, theme) ==
  SelectSeq(tokens, LAMBDA t : t.id \in theme.overriddenTokens)

\* faulty variant: base export alone decides, themed calls are skipped as well
baseExportSkipped_ignoresTheme(themePath, c) == ~c.exportBaseValues

\* !exportConfiguration.exportBaseValues && !themePath
baseExportSkipped(themePath, c) == ~c.exportBaseValues /\ themePath = ""

\* themePath && theme && exportConfiguration.exportOnlyThemedTokens
themedOnly(themePath, theme, c) ==
  themePath # "" /\ theme # <<>> /\ c.exportOnlyThemedTokens

\* faulty variant: an empty themed selection is kept when empty files are enabled
skipFile_themedKept(selected, themePath, theme, c) ==
  ~c.generateEmptyFiles /\ selected = <<>>

\* the two "return null" tests applied to the selected tokens
skipFile(selected, themePath, theme, c) ==
  \/ themedOnly(themePath, theme, c) /\ selected = <<>>
  \/ ~c.generateEmptyFiles /\ selected = <<>>

selectThemed(selected, themePath, theme, c) ==
  IF themedOnly(themePath, theme, c) THEN filterThemedTokens(selected, theme[1])
  ELSE selected

selectorFor(themePath, c) ==
  IF themePath # "" THEN [template |-> c.themeSelector, theme |-> themePath]
  ELSE [template |-> c.cssSelector, theme |-> ""]

\* GeneralHelper.addDisclaimer when showGeneratedFileDisclaimer is set
disclaimerFor(c) ==
  IF c.showGeneratedFileDisclaimer THEN <<c.disclaimer>> ELSE <<>>

ImportLine(module, variant) == [module |-> module, variant |-> variant]

Block(selector, indent, declarations) ==
  [selector |-> selector, indent |-> indent, declarations |-> declarations]

\* FileHelper.createTextFile; the content is kept in its parts
TextFile(relativePath, fileName, disclaimer, layer, imports, blocks) ==
  [relativePath |-> relativePath, fileName |-> fileName,
   content |-> [disclaimer |-> disclaimer, layer |-> layer,
                imports |-> imports, blocks |-> blocks]]

(***************************************************************************)
(* files/style-file: styleOutputFile                                       *)
(***************************************************************************)
\* faulty variant: only palette tokens are taken out of the color file
typeTokens_customKept(type, tokens, tokenGroups) ==
  LET ofType == SelectSeq(tokens, LAMBDA t : t.tokenType = type)
  IN IF type = "color"
     THEN LET noRadix == FilterT(ofType,
                LAMBDA t : LET r == isRadixColorToken(t, tokenGroups)
                           IN IF r.threw THEN Threw ELSE Ok(~r.val))
          IN noRadix
     ELSE Ok(ofType)

\* tokens of the type; for the color type without palette and custom tokens
typeTokens(type, tokens, tokenGroups) ==
  LET ofType == SelectSeq(tokens, LAMBDA t : t.tokenType = type)
  IN IF type = "color"
     THEN LET noRadix == FilterT(ofType,
                LAMBDA t : LET r == isRadixColorToken(t, tokenGroups)
                           IN IF r.threw THEN Threw ELSE Ok(~r.val))
          IN IF noRadix.threw THEN Threw
             ELSE FilterT(noRadix.val,
                    LAMBDA t : LET r == isCustomColorToken(t, tokenGroups)
                               IN IF r.threw THEN Threw ELSE Ok(~r.val))
     ELSE Ok(ofType)

\* FileNameHelper.getDefaultStyleFileName
getDefaultStyleFileName(type) == [color |-> "color.css", dimension |-> "dimension.css"][type]

\* fileName.toLowerCase().endsWith('.css') for the names in use
endsWithCss(fileName) == fileName \in {"color.css", "dimension.css", "sizes.CSS"}

styleFileName(type, c) ==
  LET fileName == IF c.customizeStyleFileNames THEN c.styleFileNames[type]
                  ELSE getDefaultStyleFileName(type)
  IN IF ~endsWithCss(fileName) THEN <<fileName, ".css">> ELSE <<fileName>>

StyleImports ==
  << ImportLine("./radix-colors.css", <<>>), ImportLine("./custom-colors.css", <<>>) >>

\* the result is <<>> for null and <<file>> for a file
styleOutputFile(type, tokens, tokenGroups, themePath, theme, tokenCollections, c) ==
  IF baseExportSkipped(themePath, c) THEN Ok(<<>>)
  ELSE
    LET ofType == typeTokens(type, tokens, tokenGroups)
    IN IF ofType.threw THEN Threw
       ELSE
         LET tokensOfType == selectThemed(ofType.val, themePath, theme, c)
         IN IF skipFile(tokensOfType, themePath, theme, c) THEN Ok(<<>>)
            ELSE
              LET cssVariables ==
                    MapT(tokensOfType,
                         LAMBDA t : convertedToken(t, tokens, tokenGroups, tokenCollections, c))
              IN IF cssVariables.threw THEN Threw
                 ELSE Ok(<< TextFile(
                              IF themePath # "" THEN <<"./", themePath>>
                              ELSE <<c.baseStyleFilePath>>,
                              styleFileName(type, c),
                              disclaimerFor(c), FALSE, StyleImports,
                              << Block(selectorFor(themePath, c), 0, cssVariables.val) >>) >>)

(***************************************************************************)
(* files/style-file: generateCombinedStyleFile                             *)
(***************************************************************************)
generateCombinedStyleFile(tokens, tokenGroups, themePath, theme, tokenCollections, c) ==
  LET noRadix == FilterT(tokens,
                   LAMBDA t : LET r == isRadixColorToken(t, tokenGroups)
                              IN IF r.threw THEN Threw ELSE Ok(~r.val))
  IN IF noRadix.threw THEN Threw
     ELSE
       LET processedTokens == selectThemed(noRadix.val, themePath, theme, c)
       IN IF skipFile(processedTokens, themePath, theme, c) THEN Ok(<<>>)
          ELSE
            LET cssVariables ==
                  MapT(processedTokens,
                       LAMBDA t : convertedToken(t, tokens, tokenGroups, tokenCollections, c))
            IN IF cssVariables.threw THEN Threw
               ELSE Ok(<< TextFile(
                            <<"./">>,
                            IF themePath # "" THEN <<"tokens.", themePath, ".css">>
                            ELSE <<"tokens.css">>,
                            disclaimerFor(c), FALSE, <<>>,
                            << Block(selectorFor(themePath, c), 0, cssVariables.val) >>) >>)

(***************************************************************************)
(* files/style-file: generateStyleFiles                                    *)
(***************************************************************************)
\* faulty variant: one entry per token instead of one per distinct type
requestedTypes_perToken(tokens, c) ==
  IF c.tokenType = "all" THEN [i \in 1..Len(tokens) |-> tokens[i].tokenType]
  ELSE <<c.tokenType>>

requestedTypes(tokens, c) ==
  IF c.tokenType = "all"
  THEN Distinct([i \in 1..Len(tokens) |-> tokens[i].tokenType])
  ELSE <<c.tokenType>>

\* generateCombinedStyleFile is called without the collections argument,
\* which then takes its default []
generateStyleFiles(tokens, tokenGroups, themePath, theme, tokenCollections, c) ==
  IF baseExportSkipped(themePath, c) THEN Ok(<<>>)
  ELSE IF c.fileStructure = "singleFile"
  THEN generateCombinedStyleFile(tokens, tokenGroups, themePath, theme, <<>>, c)
  ELSE LET files == MapT(requestedTypes(tokens, c),
                      LAMBDA type : styleOutputFile(type, tokens, tokenGroups,
                                                    themePath, theme, tokenCollections, c))
       IN IF files.threw THEN Threw ELSE Ok(Concat(files.val))

(***************************************************************************)
(* files/style-file: generateRadixColorsFile                               *)
(***************************************************************************)
sWhite == <<"w", "h", "i", "t", "e">>
sBlack == <<"b", "l", "a", "c", "k">>
sDark == <<"-", "d", "a", "r", "k">>
sAlpha == <<"-", "a", "l", "p", "h", "a">>

\* what the callback of radixColorsToImport.map returns for one id: a text
\* of zero, one or two lines, or undefined
radixImportFor(id, tokens, tokenGroups) ==
  LET i == mappedTokensGet(tokens, id)
      p == IF i = 0 THEN 0 ELSE findParent(tokens[i], tokenGroups)
  IN IF i # 0 /\ p # 0 /\ isRadixColor(getFullPath(tokenGroups[p]))
     THEN LET tokenParts == Split(tokens[i].name)
              parentColor == tokenParts[1]
              isAlpha == Len(tokenParts) >= 2 /\ tokenParts[2] # <<>>
                           /\ tokenParts[2][1] = "a"
              suffix == IF isAlpha THEN sAlpha ELSE <<>>
          IN IF parentColor = sWhite \/ parentColor = sBlack
             THEN IF isAlpha
                  THEN [defined |-> TRUE, lines |-> <<parentColor \o sAlpha>>]
                  ELSE [defined |-> TRUE, lines |-> <<>>]
             ELSE [defined |-> TRUE,
                   lines |-> <<parentColor \o suffix, parentColor \o sDark \o suffix>>]
     ELSE [defined |-> FALSE, lines |-> <<>>]

\* the referenced ids of all tokens handed in, each once, nulls dropped
radixColorsToImport(tokens) ==
  SelectSeq(Distinct([i \in 1..Len(tokens) |-> tokens[i].value.referencedTokenId]),
            LAMBDA id : id # Null)

generateRadixColorsFile(tokens, tokenGroups, c) ==
  LET ids == radixColorsToImport(tokens)
      texts == Distinct([k \in 1..Len(ids) |-> radixImportFor(ids[k], tokens, tokenGroups)])
      kept == SelectSeq(texts, LAMBDA a : a.defined /\ a.lines # <<>>)
      radixColorImports == Concat([k \in 1..Len(kept) |-> kept[k].lines])
  IN Ok(<< TextFile(<<c.baseStyleFilePath>>, <<"radix-colors.css">>,
                    disclaimerFor(c), FALSE,
                    [k \in 1..Len(radixColorImports) |->
                       ImportLine("@radix-ui/colors", radixColorImports[k])],
                    <<>>) >>)

(***************************************************************************)
(* files/style-file: generateCustomColorsFile                              *)
(***************************************************************************)
\* one selector block of custom-color declarations, each indented once more
customColorsBlock(selector, tokens, tokenGroups, tokenCollections, c) ==
  LET customColors == FilterT(tokens, LAMBDA t : isCustomColorToken(t, tokenGroups))
  IN IF customColors.threw THEN Threw
     ELSE LET variables ==
                MapT(customColors.val,
                     LAMBDA t : LET d == convertedToken(t, tokens, tokenGroups, tokenCollections, c)
                                IN IF d.threw THEN Threw
                                   ELSE Ok([d.val EXCEPT !.indent = @ + c.indent]))
          IN IF variables.threw THEN Threw
             ELSE Ok(Block(selector, c.indent, variables.val))

\* tokensByTheme is a sequence of [theme, tokens] entries in Map order
generateCustomColorsFile(baseTokens, tokensByTheme, tokenGroups, tokenCollections, c) ==
  LET base == customColorsBlock([template |-> ":root", theme |-> ""],
                                baseTokens, tokenGroups, tokenCollections, c)
      themed == MapT(tokensByTheme,
                  LAMBDA e : customColorsBlock([template |-> c.themeSelector, theme |-> e.theme],
                                               e.tokens, tokenGroups, tokenCollections, c))
  IN IF base.threw \/ themed.threw THEN Threw
     ELSE Ok(<< TextFile(<<c.baseStyleFilePath>>, <<"custom-colors.css">>,
                         disclaimerFor(c), TRUE, <<>>,
                         <<base.val>> \o themed.val) >>)

(***************************************************************************)
(* State machine: the host sets the configuration and calls the exports    *)
(***************************************************************************)
NoArgs ==
  [token |-> <<>>, type |-> "", tokens |-> <<>>, tokenGroups |-> <<>>,
   themePath |-> "", theme |-> <<>>, tokenCollections |-> <<>>,
   tokensByTheme |-> <<>>]

\* a call's outcome: thrown or not, the files returned, the declarations
\* returned, the boolean returned
NoResult == [threw |-> FALSE, files |-> <<>>, decls |-> <<>>, flag |-> FALSE]

FilesResult(r) ==
  IF r.threw THEN [NoResult EXCEPT !.threw = TRUE]
  ELSE [NoResult EXCEPT !.files = r.val]

DeclResult(r) ==
  IF r.threw THEN [NoResult EXCEPT !.threw = TRUE]
  ELSE [NoResult EXCEPT !.decls = <<r.val>>]

FlagResult(r) ==
  IF r.threw THEN [NoResult EXCEPT !.threw = TRUE]
  ELSE [NoResult EXCEPT !.flag = r.val]

Init ==
  /\ cfg = DefaultConfig
  /\ op = "none"
  /\ args = NoArgs
  /\ result = NoResult

\* configurations the style-file assembler is run under
StyleConfigs ==
  { [DefaultConfig EXCEPT !.exportBaseValues = b, !.fileStructure = f,
                          !.tokenType = ty, !.exportOnlyThemedTokens = th,
                          !.generateEmptyFiles = e, !.tokenNameStructure = n,
                          !.useReferences = u] :
      b \in BOOLEAN, f \in {"separateByType", "singleFile"},
      ty \in {"all", "color"}, th \in BOOLEAN, e \in BOOLEAN,
      n \in {"pathAndName", "collectionPathAndName"}, u \in BOOLEAN }

\* configurations the naming / conversion functions are run under
TokenConfigs ==
  { [DefaultConfig EXCEPT !.useReferences = u, !.tokenNameStructure = n,
                          !.customizeTokenPrefixes = p, !.globalNamePrefix = g,
                          !.showDescriptions = d] :
      u \in BOOLEAN, n \in {"nameOnly", "pathAndName", "collectionPathAndName"},
      p \in BOOLEAN, g \in {"", "ds"}, d \in BOOLEAN }

\* configurations the two color files are built under
ColorsConfigs ==
  { [DefaultConfig EXCEPT !.useReferences = u, !.showGeneratedFileDisclaimer = d,
                          !.tokenNameStructure = n] :
      u \in BOOLEAN, d \in BOOLEAN, n \in {"pathAndName", "collectionPathAndName"} }

\* calls are synchronous: the host configures and calls only between calls
Idle == op = "none"

Configure(configs) ==
  /\ Idle
  /\ cfg' \in configs
  /\ op' = "none"
  /\ args' = NoArgs
  /\ result' = NoResult

ConfigureStyle == Configure(StyleConfigs)

ConfigureToken == Configure(TokenConfigs)

ConfigureColors == Configure(ColorsConfigs)

CallGenerateStyleFiles ==
  /\ Idle
  /\ \E tokens \in StyleTokenLists, tokenGroups \in GroupLists, themePath \in ThemePaths,
     theme \in ThemeArgs, tokenCollections \in CollectionLists :
    /\ op' = "generateStyleFiles"
    /\ args' = [NoArgs EXCEPT !.tokens = tokens, !.tokenGroups = tokenGroups,
                              !.themePath = themePath, !.theme = theme,
                              !.tokenCollections = tokenCollections]
    /\ result' = FilesResult(generateStyleFiles(tokens, tokenGroups, themePath, theme,
                                                tokenCollections, cfg))
    /\ UNCHANGED cfg

CallStyleOutputFile ==
  /\ Idle
  /\ \E type \in {"color", "dimension"}, tokens \in StyleTokenLists,
     tokenGroups \in GroupLists, themePath \in ThemePaths,
     theme \in ThemeArgs, tokenCollections \in CollectionLists :
    /\ op' = "styleOutputFile"
    /\ args' = [NoArgs EXCEPT !.type = type, !.tokens = tokens,
                              !.tokenGroups = tokenGroups,
                              !.themePath = themePath, !.theme = theme,
                              !.tokenCollections = tokenCollections]
    /\ result' = FilesResult(styleOutputFile(type, tokens, tokenGroups, themePath, theme,
                                             tokenCollections, cfg))
    /\ UNCHANGED cfg

CallGenerateRadixColorsFile ==
  /\ Idle
  /\ \E tokens \in TokenLists, tokenGroups \in GroupLists :
    /\ op' = "generateRadixColorsFile"
    /\ args' = [NoArgs EXCEPT !.tokens = tokens, !.tokenGroups = tokenGroups]
    /\ result' = FilesResult(generateRadixColorsFile(tokens, tokenGroups, cfg))
    /\ UNCHANGED cfg

\* the themed token lists are the base list or one other list
CallGenerateCustomColorsFile ==
  /\ Idle
  /\ \E tokens \in StyleTokenLists, themed \in StyleTokenLists, n \in 0..1,
     tokenGroups \in GroupLists, tokenCollections \in CollectionLists :
    LET tokensByTheme == IF n = 0 THEN <<>> ELSE <<[theme |-> "dark", tokens |-> themed]>>
    IN /\ n = 0 => themed = <<>>
       /\ op' = "generateCustomColorsFile"
       /\ args' = [NoArgs EXCEPT !.tokens = tokens, !.tokenGroups = tokenGroups,
                                 !.tokenCollections = tokenCollections,
                                 !.tokensByTheme = tokensByTheme]
       /\ result' = FilesResult(generateCustomColorsFile(tokens, tokensByTheme, tokenGroups,
                                                         tokenCollections, cfg))
       /\ UNCHANGED cfg

CallConvertedToken ==
  /\ Idle
  /\ \E tokens \in TokenLists, tokenGroups \in GroupLists,
     tokenCollections \in CollectionLists :
    \E k \in 1..Len(tokens) :
      /\ op' = "convertedToken"
      /\ args' = [NoArgs EXCEPT !.token = <<tokens[k]>>, !.tokens = tokens,
                                !.tokenGroups = tokenGroups,
                                !.tokenCollections = tokenCollections]
      /\ result' = DeclResult(convertedToken(tokens[k], tokens, tokenGroups,
                                             tokenCollections, cfg))
      /\ UNCHANGED cfg

CallIsRadixColorToken ==
  /\ Idle
  /\ \E k \in 1..Len(TokenPool), tokenGroups \in GroupLists :
    /\ op' = "isRadixColorToken"
    /\ args' = [NoArgs EXCEPT !.token = <<TokenPool[k]>>, !.tokenGroups = tokenGroups]
    /\ result' = FlagResult(isRadixColorToken(TokenPool[k], tokenGroups))
    /\ UNCHANGED cfg

CallIsCustomColorToken ==
  /\ Idle
  /\ \E k \in 1..Len(TokenPool), tokenGroups \in GroupLists :
    /\ op' = "isCustomColorToken"
    /\ args' = [NoArgs EXCEPT !.token = <<TokenPool[k]>>, !.tokenGroups = tokenGroups]
    /\ result' = FlagResult(isCustomColorToken(TokenPool[k], tokenGroups))
    /\ UNCHANGED cfg

\* the caller takes the result; the next call can be made
Return ==
  /\ ~Idle
  /\ op' = "none"
  /\ args' = NoArgs
  /\ result' = NoResult
  /\ UNCHANGED cfg

NextStyle == ConfigureStyle \/ CallGenerateStyleFiles \/ CallStyleOutputFile \/ Return

NextToken ==
  \/ ConfigureToken \/ CallConvertedToken \/ CallIsRadixColorToken
  \/ CallIsCustomColorToken \/ Return

NextColors ==
  ConfigureColors \/ CallGenerateRadixColorsFile \/ CallGenerateCustomColorsFile \/ Return

Next == NextStyle \/ NextToken \/ NextColors

\* the style-file assembler
SpecStyle == Init /\ [][NextStyle]_vars

\* naming, classification and value conversion
SpecToken == Init /\ [][NextToken]_vars

\* the palette import file and the custom colors file
SpecColors == Init /\ [][NextColors]_vars

Spec == Init /\ [][Next]_vars

(***************************************************************************)
(* Properties                                                              *)
(***************************************************************************)
\* the classification as the specification words it: the full path is the
\* stored path plus the group's own name unless the group is a root group;
\* first segment core-color, then second segment custom or anything else
ClaimFullPath(g) == IF g.isRoot THEN g.path ELSE g.path \o <<g.name>>

ClaimPathClass(path) ==
  IF path = <<>> \/ path[1] # "core-color" THEN "ordinary"
  ELSE IF Len(path) >= 2 /\ path[2] = "custom" THEN "customColor"
  ELSE "paletteColor"

HasParent(token, tokenGroups) ==
  \E g \in Range(tokenGroups) : g.id = token.parentGroupId

ParentOf(token, tokenGroups) ==
  CHOOSE g \in Range(tokenGroups) : g.id = token.parentGroupId

ClaimClass(token, tokenGroups) ==
  ClaimPathClass(ClaimFullPath(ParentOf(token, tokenGroups)))

TokenById(tokens, id) == CHOOSE t \in Range(tokens) : t.id = id

FileDecls(file) ==
  UNION {Range(b.declarations) : b \in Range(file.content.blocks)}

AllDecls(files) == UNION {FileDecls(f) : f \in Range(files)}

ThemedOnlyActive ==
  args.themePath # "" /\ args.theme # <<>> /\ cfg.exportOnlyThemedTokens

\* a call of generateStyleFiles that returned and was not short-circuited
StyleCallReturned ==
  /\ op = "generateStyleFiles"
  /\ ~result.threw
  /\ cfg.exportBaseValues \/ args.themePath # ""

\* all tokens minus the palette-classified ones, restricted to the themed
\* ones when the themed-only filter is active
CombinedFiltered ==
  SelectSeq(args.tokens,
            LAMBDA t : /\ ClaimClass(t, args.tokenGroups) # "paletteColor"
                       /\ ThemedOnlyActive => t.id \in args.theme[1].overriddenTokens)

\* C1 as stated: in combined mode a call that is not short-circuited returns
\* exactly one record, and zero records exactly when the filtered token set
\* is empty and generateEmptyFiles is disabled
C1_Original ==
  (StyleCallReturned /\ cfg.fileStructure = "singleFile")
    => Len(result.files) =
         (IF CombinedFiltered = <<>> /\ ~cfg.generateEmptyFiles THEN 0 ELSE 1)

\* C1 amended: in combined mode a call that is not short-circuited returns
\* exactly one record, and zero records exactly when the filtered token set
\* is empty and either generateEmptyFiles is disabled or the themed-only
\* filter is active
C1_CombinedRecordCount ==
  (StyleCallReturned /\ cfg.fileStructure = "singleFile")
    => Len(result.files) =
         (IF CombinedFiltered = <<>> /\ (~cfg.generateEmptyFiles \/ ThemedOnlyActive)
          THEN 0 ELSE 1)

C1_Witness ==
  /\ StyleCallReturned /\ cfg.fileStructure = "singleFile"
  /\ ThemedOnlyActive /\ cfg.generateEmptyFiles
  /\ args.tokens # <<>> /\ CombinedFiltered = <<>>
  /\ result.files = <<>>

\* C2: in split mode with tokenType "all", empty files enabled and the
\* themed-only filter inactive, a call that is not short-circuited returns
\* exactly one record per distinct token type of the input, the record of a
\* type carrying that type's file name
C2_SplitOneRecordPerType ==
  (/\ StyleCallReturned /\ cfg.fileStructure = "separateByType"
   /\ cfg.tokenType = "all" /\ cfg.generateEmptyFiles /\ ~ThemedOnlyActive)
    => LET types == {t.tokenType : t \in Range(args.tokens)}
       IN /\ Len(result.files) = Cardinality(types)
          /\ \A ty \in types :
               Cardinality({i \in 1..Len(result.files) :
                              result.files[i].fileName = styleFileName(ty, cfg)}) = 1

C2_Witness ==
  /\ StyleCallReturned /\ cfg.fileStructure = "separateByType"
  /\ cfg.tokenType = "all" /\ cfg.generateEmptyFiles /\ ~ThemedOnlyActive
  /\ Len(args.tokens) = 3
  /\ Cardinality({t.tokenType : t \in Range(args.tokens)}) = 2
  /\ Len(result.files) = 2

\* C3: with exportBaseValues false and an empty themePath generateStyleFiles
\* (and styleOutputFile) returns nothing; with a themePath the outcome is the
\* one of the same call under the opposite exportBaseValues
C3_BaseExportShortCircuit ==
  LET flipped == [cfg EXCEPT !.exportBaseValues = ~@]
  IN /\ op = "generateStyleFiles" =>
          /\ (~cfg.exportBaseValues /\ args.themePath = "") => result = NoResult
          /\ args.themePath # "" =>
               result = FilesResult(generateStyleFiles(
                          args.tokens, args.tokenGroups, args.themePath,
                          args.theme, args.tokenCollections, flipped))
     /\ op = "styleOutputFile" =>
          /\ (~cfg.exportBaseValues /\ args.themePath = "") => result = NoResult
          /\ args.themePath # "" =>
               result = FilesResult(styleOutputFile(
                          args.type, args.tokens, args.tokenGroups, args.themePath,
                          args.theme, args.tokenCollections, flipped))

C3_Witness ==
  /\ op = "generateStyleFiles"
  /\ ~cfg.exportBaseValues /\ args.themePath # ""
  /\ ~result.threw /\ result.files # <<>>

C9_SameNameInBothModes ==
  (StyleCallReturned /\ cfg.fileStructure = "singleFile") =>
    LET split == generateStyleFiles(
                   args.tokens, args.tokenGroups, args.themePath, args.theme,
                   args.tokenCollections,
                   [cfg EXCEPT !.fileStructure = "separateByType", !.tokenType = "all"])
    IN ~split.threw =>
         \A d \in AllDecls(result.files) : \A e \in AllDecls(split.val) :
           d.token = e.token => d.name = e.name

\* a call on one token whose parent group is in the group list
TokenCallWithParent ==
  /\ op \in {"isRadixColorToken", "isCustomColorToken", "convertedToken"}
  /\ HasParent(args.token[1], args.tokenGroups)

\* C5: for a token whose parent group exists the class is the one the full
\* path of the parent group determines, exactly one of the three classes
\* holds, the filter predicates report that class, and the name resolver
\* takes the branch of that class (a palette or custom name carries neither
\* type prefix, group path nor collection; an ordinary name carries the type
\* prefix)
C5_ClassificationConsistent ==
  TokenCallWithParent =>
    LET t == args.token[1]
        class == ClaimClass(t, args.tokenGroups)
        radix == isRadixColorToken(t, args.tokenGroups)
        custom == isCustomColorToken(t, args.tokenGroups)
        branch == tokenVariableNameBranch(getFullPath(ParentOf(t, args.tokenGroups)))
    IN /\ ~radix.threw /\ ~custom.threw
       /\ ~(radix.val /\ custom.val)
       /\ radix.val <=> class = "paletteColor"
       /\ custom.val <=> class = "customColor"
       /\ branch = class
       /\ op = "isRadixColorToken" => (~result.threw /\ result.flag = (class = "paletteColor"))
       /\ op = "isCustomColorToken" => (~result.threw /\ result.flag = (class = "customColor"))
       /\ (op = "convertedToken" /\ ~result.threw) =>
            LET name == result.decls[1].name
            IN IF class = "ordinary"
               THEN name.prefix = getTokenPrefix(t.tokenType, cfg)
               ELSE name.prefix = "" /\ name.path = <<>> /\ name.collection = ""

C5_Witness ==
  /\ op = "isCustomColorToken"
  /\ HasParent(args.token[1], args.tokenGroups)
  /\ ~ParentOf(args.token[1], args.tokenGroups).isRoot
  /\ Len(ParentOf(args.token[1], args.tokenGroups).path) = 1
  /\ result.flag

\* C6: with useReferences set, the declaration convertedToken produces for a
\* token that references another token has the value var(--N), N being the
\* name the name resolver gives the referenced token under the same groups,
\* collections and configuration
C6_ReferenceUsesResolvedName ==
  (/\ op = "convertedToken" /\ ~result.threw /\ cfg.useReferences
   /\ args.token[1].value.referencedTokenId # Null)
    => LET target == TokenById(args.tokens, args.token[1].value.referencedTokenId)
           n == tokenVariableName(target, args.tokenGroups, args.tokenCollections, cfg)
       IN /\ ~n.threw
          /\ result.decls[1].value.kind = "var"
          /\ result.decls[1].value.name = n.val
          /\ n.val.name = target.name
          /\ (/\ ClaimClass(target, args.tokenGroups) = "ordinary"
              /\ cfg.tokenNameStructure = "collectionPathAndName"
              /\ target.collectionId # Null)
               => n.val.collection # ""

C6_Witness ==
  /\ op = "convertedToken" /\ ~result.threw /\ cfg.useReferences
  /\ args.token[1].value.referencedTokenId # Null
  /\ result.decls[1].value.kind = "var"
  /\ ClaimClass(args.token[1], args.tokenGroups) = "customColor"
  /\ ClaimClass(TokenById(args.tokens, args.token[1].value.referencedTokenId),
                args.tokenGroups) = "paletteColor"

\* the import lines C7 requires for one palette token
ClaimImportLines(token) ==
  LET parts == Split(token.name)
      family == parts[1]
      alpha == Len(parts) >= 2 /\ parts[2] # <<>> /\ parts[2][1] = "a"
  IN IF family = sWhite \/ family = sBlack
     THEN IF alpha THEN {family \o sAlpha} ELSE {}
     ELSE IF alpha THEN {family \o sAlpha, family \o sDark \o sAlpha}
          ELSE {family, family \o sDark}

\* the palette-classified tokens referenced by the tokens of the given types
ClaimReferencedPalette(types) ==
  {t \in Range(args.tokens) :
     /\ \E r \in Range(args.tokens) :
          r.tokenType \in types /\ r.value.referencedTokenId = t.id
     /\ HasParent(t, args.tokenGroups)
     /\ ClaimClass(t, args.tokenGroups) = "paletteColor"}

RadixFileLines == result.files[1].content.imports

\* C7: the import lines of the palette import file are exactly the lines of
\* the palette-classified tokens that color tokens reference, each once;
\* references made by tokens of other types contribute no line
C7_ImportLinesFromColorTokens ==
  op = "generateRadixColorsFile" =>
    /\ ~result.threw /\ Len(result.files) = 1
    /\ {RadixFileLines[i].variant : i \in 1..Len(RadixFileLines)}
         = UNION {ClaimImportLines(t) : t \in ClaimReferencedPalette({"color"})}
    /\ \A i, j \in 1..Len(RadixFileLines) :
         RadixFileLines[i] = RadixFileLines[j] => i = j

\* the tokens whose parent group is not in the group list
Orphans(tokens) == {t \in Range(tokens) : ~HasParent(t, args.tokenGroups)}

\* C8: an operation that classifies, names or resolves a token whose parent
\* group is missing fails and returns no record: generateCustomColorsFile
\* classifies every token handed in, generateRadixColorsFile resolves every
\* referenced token, generateStyleFiles classifies every token in combined
\* mode and every color token of a requested color type in split mode
C8_MissingParentFails ==
  /\ (/\ op = "generateCustomColorsFile"
      /\ \/ Orphans(args.tokens) # {}
         \/ \E i \in 1..Len(args.tokensByTheme) : Orphans(args.tokensByTheme[i].tokens) # {})
       => (result.threw /\ result.files = <<>>)
  /\ (/\ op = "generateRadixColorsFile"
      /\ \E t \in Orphans(args.tokens) : \E r \in Range(args.tokens) :
           r.value.referencedTokenId = t.id)
       => (result.threw /\ result.files = <<>>)
  /\ (/\ op = "generateStyleFiles"
      /\ cfg.exportBaseValues \/ args.themePath # ""
      /\ \/ cfg.fileStructure = "singleFile" /\ Orphans(args.tokens) # {}
         \/ /\ cfg.fileStructure = "separateByType"
            /\ \E t \in Orphans(args.tokens) :
                 t.tokenType = "color" /\ cfg.tokenType \in {"all", "color"})
       => (result.threw /\ result.files = <<>>)

====
